---------------------------- MODULE Spec2Model ----------------------------
(***************************************************************************)
(* Batch relevance-scoring jobs of pulsepick-ai.                           *)
(*                                                                         *)
(*   backend/app/api/endpoints/articles.py                                 *)
(*       batch_score_articles_async_endpoint   (Submit)                    *)
(*       get_batch_score_status                (Status)                    *)
(*       get_articles_with_persona             (List)                      *)
(*       batch_score_articles                  (BatchScore)                *)
(*   backend/app/workers/tasks.py                                          *)
(*       batch_score_articles_async            (Run)                       *)
(*   backend/app/pipeline/processor.py                                     *)
(*       _calculate_relevance_score            (ScoreRecency)              *)
(*       _calculate_persona_relevance_fallback (ScoreFallback)             *)
(*       calculate_combined_relevance_score    (ScoreCombined)             *)
(*                                                                         *)
(* The progress store is the Redis hash "article_scoring:<task_id>".       *)
(* Every Redis command is one atomic step; a command issued while the      *)
(* store is unreachable raises.  Time advances in steps of TickSeconds     *)
(* and is what makes keys with a TTL expire.                               *)
(***************************************************************************)
EXTENDS Integers, Sequences, FiniteSets, TLC

(***************************************************************************)
(* Bounds                                                                  *)
(***************************************************************************)
\* longest article_ids list a caller submits
MaxIds == 3
\* chunk size of the run; the source uses 100 (tasks.py:355), scaled down so
\* that a list of MaxIds ids still splits into several chunks
BATCH_SIZE == 2
\* seconds that pass in one step of the clock
TickSeconds == 1200
\* largest limit of a listing request (the endpoint allows 1 .. 500)
MaxLimit == 2

(***************************************************************************)
(* Program constants                                                       *)
(***************************************************************************)
\* tasks.py:349  expire(..., 2400) after the initial record
RunProcessingTTL == 2400
\* tasks.py:447  expire(..., 7200) after status completed
RunCompletedTTL == 7200
\* articles.py:597  expire(..., 1800) on a poll that sees processing
PollProcessingTTL == 1800
\* articles.py:601  expire(..., 3600) on a poll that sees completed
PollCompletedTTL == 3600

\* task ids handed out by the queue
TaskIds == {1}
\* deliveries of task messages to workers
Slots == {1, 2}
\* rows of the articles table: enough for a list of MaxIds distinct ids
ArticleTable == 1 .. MaxIds
\* the ids a caller may name: those of the rows and one of a deleted article
ArticleIdSpace == 1 .. (MaxIds + 1)

Min(a, b) == IF a < b THEN a ELSE b

RECURSIVE SeqsUpTo(_)
SeqsUpTo(n) ==
    IF n = 0 THEN {<<>>}
    ELSE LET S == SeqsUpTo(n - 1)
         IN  S \cup {Append(s, a) : s \in {t \in S : Len(t) = n - 1},
                                    a \in ArticleIdSpace}

\* article_ids lists a caller may post: up to MaxIds ids, repeated ids and
\* the id of the deleted article included.  The run looks at an id only to
\* find its row, so rows are interchangeable: lists are taken in ascending
\* order and name the rows from 1 upward.
IdLists ==
    {s \in SeqsUpTo(MaxIds) :
        /\ \A i \in 1 .. Len(s) - 1 : s[i] <= s[i + 1]
        /\ \A i \in 1 .. Len(s) :
              (s[i] \in ArticleTable /\ s[i] > 1) =>
                  \E j \in 1 .. i : s[j] = s[i] - 1}

VARIABLES
    jobs,      \* task id -> the accepted submission (or none yet)
    submitted, \* outcome of the last Submit request
    store,     \* task id -> Redis hash article_scoring:<id>; no field = no key
    ttl,       \* task id -> Redis TTL: -2 no key, -1 no expiry, else seconds
    redisUp,   \* the store is reachable
    w,         \* delivery slot -> state of that run of the task
    poll,      \* the Status request in progress
    last,      \* task id -> latest Status response since the id was handed out
    seen,      \* task id -> highest processed a Status response read from
               \*            the job's entry so far (-1: none)
    db,        \* article row -> its persisted relevance_score (percent)
    lst,       \* the latest listing or batch-score request and its response
    sc         \* the latest call of a scoring function and what it returned

vars ==
    <<jobs, submitted, store, ttl, redisUp, w, poll, last, seen, db, lst, sc>>

(***************************************************************************)
(* Redis hash commands                                                     *)
(***************************************************************************)
NoHash == [f \in {} |-> 0]

Exists(k) == DOMAIN store[k] # {}

\* HSET key field value [field value ...]: creates the key when it is
\* absent, overwrites the named fields, leaves the others and the TTL alone
HSetHash(h, m) ==
    [f \in (DOMAIN h) \cup (DOMAIN m) |-> IF f \in DOMAIN m THEN m[f] ELSE h[f]]

HSetTTL(k) == IF Exists(k) THEN ttl[k] ELSE -1

\* EXPIRE key seconds: no effect on an absent key
ExpireTTL(k, secs) == IF Exists(k) THEN secs ELSE ttl[k]

(***************************************************************************)
(* Run: batch_score_articles_async                                         *)
(***************************************************************************)
FreeWorker ==
    [pc |-> "free", job |-> 0, batch_idx |-> 0, all_results |-> <<>>,
     processed_count |-> 0, total_processed |-> 0, raisedAt |-> "none",
     chunkFailed |-> FALSE, writeAttempts |-> 0,
     batch_results |-> <<>>, unsaved |-> <<>>]

QueuedWorker(j) == [FreeWorker EXCEPT !.pc = "queued", !.job = j]

\* batches = [article_ids[i:i + BATCH_SIZE] for i in range(0, len, BATCH_SIZE)]
NumBatches(ids) == (Len(ids) + BATCH_SIZE - 1) \div BATCH_SIZE

Batch(ids, i) ==
    SubSeq(ids, i * BATCH_SIZE + 1, Min((i + 1) * BATCH_SIZE, Len(ids)))

Range(s) == {s[i] : i \in DOMAIN s}

RECURSIVE SortedSeq(_)
SortedSeq(S) ==
    IF S = {} THEN <<>>
    ELSE LET m == CHOOSE x \in S : \A y \in S : x <= y
         IN  <<m>> \o SortedSeq(S \ {m})

\* the query answers with an entry for every id of the batch, found or not
QueryArticlesWithMissing(batch) == SortedSeq(Range(batch))

\* db.query(Article).filter(Article.id.in_(batch)).all(): the rows whose id
\* is in the batch, each once, in primary-key order
QueryArticles(batch) == SortedSeq(Range(batch) \cap ArticleTable)

\* processor.calculate_combined_relevance_scores_batch(articles, persona)
\* (ScoreBatch of the specification): one score per article, in order
ScoreBatch(articles) == [i \in 1 .. Len(articles) |-> 50]

\* for i, article in enumerate(batch_articles): if i < len(scores): ...
BatchResults(articles, scores) ==
    [i \in 1 .. Min(Len(articles), Len(scores)) |->
        [id |-> articles[i], relevance_score |-> scores[i]]]

\* the outer except of the task catches the exception raised at step pcAt
Abort(d, pcAt) ==
    w' = [w EXCEPT ![d].pc = "fail_status", ![d].raisedAt = pcAt]

InitialRecordTotalBatches(ids) ==
    [total |-> NumBatches(ids), processed |-> 0, status |-> "processing",
     results |-> <<>>]

\* mapping={"total": len(article_ids), "processed": 0,
\*          "status": "processing", "results": json.dumps([])}
InitialRecord(ids) ==
    [total |-> Len(ids), processed |-> 0, status |-> "processing",
     results |-> <<>>]

\* a worker takes the message (task_id = self.request.id) and issues
\* redis_client.hset(key, mapping={total, processed, status, results})
RunInit(d) ==
    /\ w[d].pc = "queued"
    /\ LET k == w[d].job
       IN  IF redisUp
           THEN /\ store' = [store EXCEPT ![k] =
                                HSetHash(@, InitialRecord(jobs[k].ids))]
                /\ ttl' = [ttl EXCEPT ![k] = HSetTTL(k)]
                /\ w' = [w EXCEPT ![d].pc = "init_expire"]
           ELSE /\ Abort(d, "init")
                /\ UNCHANGED <<store, ttl>>
    /\ UNCHANGED <<jobs, submitted, redisUp, poll, last, seen>>
    /\ UNCHANGED <<db, lst, sc>>

\* redis_client.expire(key, 2400)
RunInitExpire(d) ==
    /\ w[d].pc = "init_expire"
    /\ LET k == w[d].job
       IN  IF redisUp
           THEN /\ ttl' = [ttl EXCEPT ![k] = ExpireTTL(k, RunProcessingTTL)]
                /\ w' = [w EXCEPT ![d].pc = "chunk"]
           ELSE /\ Abort(d, "init_expire")
                /\ UNCHANGED ttl
    /\ UNCHANGED <<jobs, submitted, store, redisUp, poll, last, seen>>
    /\ UNCHANGED <<db, lst, sc>>

\* for batch_idx, batch in enumerate(batches): the loop is exhausted
RunLoopEnd(d) ==
    /\ w[d].pc = "chunk"
    /\ w[d].batch_idx >= NumBatches(jobs[w[d].job].ids)
    /\ w' = [w EXCEPT ![d].pc = "complete"]
    /\ UNCHANGED <<jobs, submitted, store, ttl, redisUp, poll, last, seen>>
    /\ UNCHANGED <<db, lst, sc>>

CurrentBatch(d) == Batch(jobs[w[d].job].ids, w[d].batch_idx)

InLoop(d) ==
    /\ w[d].pc = "chunk"
    /\ w[d].batch_idx < NumBatches(jobs[w[d].job].ids)

\* db.query(...).all() raises: the query is outside the inner try, so the
\* exception reaches the outer except of the task
RunFetchFails(d) ==
    /\ InLoop(d)
    /\ Abort(d, "fetch")
    /\ UNCHANGED <<jobs, submitted, store, ttl, redisUp, poll, last, seen>>
    /\ UNCHANGED <<db, lst, sc>>

\* if not batch_articles: continue
RunSkipEmpty(d) ==
    /\ InLoop(d)
    /\ QueryArticles(CurrentBatch(d)) = <<>>
    /\ w' = [w EXCEPT ![d].batch_idx = @ + 1]
    /\ UNCHANGED <<jobs, submitted, store, ttl, redisUp, poll, last, seen>>
    /\ UNCHANGED <<db, lst, sc>>

\* the inner except: log, time.sleep(1), go on with the next batch
NextBatch(wd) == [wd EXCEPT !.pc = "chunk", !.batch_idx = @ + 1]

ChunkError(wd) == [NextBatch(wd) EXCEPT !.chunkFailed = TRUE]

\* the scoring call raises inside the inner try
RunScoreFails(d) ==
    /\ InLoop(d)
    /\ QueryArticles(CurrentBatch(d)) # <<>>
    /\ w' = [w EXCEPT ![d] = ChunkError(@)]
    /\ UNCHANGED <<jobs, submitted, store, ttl, redisUp, poll, last, seen>>
    /\ UNCHANGED <<db, lst, sc>>

ProcessedCountOfBatchOnly(total_processed, batch_results) ==
    Len(batch_results)

\* processed_count = total_processed + len(batch_results)
ProcessedCount(total_processed, batch_results) ==
    total_processed + Len(batch_results)

\* the scoring call returns: batch_results and all_results are extended,
\* processed_count = total_processed + len(batch_results)
RunScore(d) ==
    /\ InLoop(d)
    /\ LET articles == QueryArticles(CurrentBatch(d))
           batch_results == BatchResults(articles, ScoreBatch(articles))
           count == ProcessedCount(w[d].total_processed, batch_results)
       IN  /\ articles # <<>>
           /\ w' = [w EXCEPT ![d].pc = "w_processed",
                             ![d].batch_results = batch_results,
                             ![d].all_results = @ \o batch_results,
                             ![d].processed_count = count,
                             ![d].total_processed = count]
    /\ UNCHANGED <<jobs, submitted, store, ttl, redisUp, poll, last, seen>>
    /\ UNCHANGED <<db, lst, sc>>

\* a progress write raised and the except clause took the results of the
\* chunk out of all_results again
WriteFailedDropsResults(wd) ==
    [ChunkError(wd) EXCEPT
        !.writeAttempts = 1,
        !.unsaved = @ \o wd.batch_results,
        !.all_results = SubSeq(@, 1, Len(@) - Len(wd.batch_results)),
        !.total_processed = @ - Len(wd.batch_results)]

\* a progress write raised: the inner except moves on to the next batch;
\* all_results and total_processed keep the results of the chunk (unsaved
\* records them: the results of the chunks whose progress write raised)
WriteFailed(wd) ==
    [ChunkError(wd) EXCEPT !.writeAttempts = 1,
                           !.unsaved = @ \o wd.batch_results]

\* redis_client.hset(key, "processed", processed_count), then
\* self.update_state(...), which stores nothing (no result backend)
RunWriteProcessed(d) ==
    /\ w[d].pc = "w_processed"
    /\ LET k == w[d].job
       IN  IF redisUp
           THEN /\ store' = [store EXCEPT ![k] = HSetHash(@,
                       [processed |-> w[d].processed_count])]
                /\ ttl' = [ttl EXCEPT ![k] = HSetTTL(k)]
                /\ w' = [w EXCEPT ![d].pc = "w_results"]
           ELSE /\ w' = [w EXCEPT ![d] = WriteFailed(@)]
                /\ UNCHANGED <<store, ttl>>
    /\ UNCHANGED <<jobs, submitted, redisUp, poll, last, seen>>
    /\ UNCHANGED <<db, lst, sc>>

\* the write stores the results of the current chunk only
RunWriteResultsBatchOnly(d) ==
    /\ w[d].pc = "w_results"
    /\ LET k == w[d].job
       IN  IF redisUp
           THEN /\ store' = [store EXCEPT ![k] = HSetHash(@,
                       [results |-> w[d].batch_results])]
                /\ ttl' = [ttl EXCEPT ![k] = HSetTTL(k)]
                /\ w' = [w EXCEPT ![d] = NextBatch(@)]
           ELSE /\ w' = [w EXCEPT ![d] = WriteFailed(@)]
                /\ UNCHANGED <<store, ttl>>
    /\ UNCHANGED <<jobs, submitted, redisUp, poll, last, seen>>
    /\ UNCHANGED <<db, lst, sc>>

\* redis_client.hset(key, "results", json.dumps(all_results))
RunWriteResults(d) ==
    /\ w[d].pc = "w_results"
    /\ LET k == w[d].job
       IN  IF redisUp
           THEN /\ store' = [store EXCEPT ![k] = HSetHash(@,
                       [results |-> w[d].all_results])]
                /\ ttl' = [ttl EXCEPT ![k] = HSetTTL(k)]
                /\ w' = [w EXCEPT ![d] = NextBatch(@)]
           ELSE /\ w' = [w EXCEPT ![d] = WriteFailed(@)]
                /\ UNCHANGED <<store, ttl>>
    /\ UNCHANGED <<jobs, submitted, redisUp, poll, last, seen>>
    /\ UNCHANGED <<db, lst, sc>>

\* redis_client.hset(key, "status", "completed")
RunComplete(d) ==
    /\ w[d].pc = "complete"
    /\ LET k == w[d].job
       IN  IF redisUp
           THEN /\ store' = [store EXCEPT ![k] = HSetHash(@,
                       [status |-> "completed"])]
                /\ ttl' = [ttl EXCEPT ![k] = HSetTTL(k)]
                /\ w' = [w EXCEPT ![d].pc = "complete_expire"]
           ELSE /\ Abort(d, "complete")
                /\ UNCHANGED <<store, ttl>>
    /\ UNCHANGED <<jobs, submitted, redisUp, poll, last, seen>>
    /\ UNCHANGED <<db, lst, sc>>

\* redis_client.expire(key, 7200); return {...}
RunCompleteExpire(d) ==
    /\ w[d].pc = "complete_expire"
    /\ LET k == w[d].job
       IN  IF redisUp
           THEN /\ ttl' = [ttl EXCEPT ![k] = ExpireTTL(k, RunCompletedTTL)]
                /\ w' = [w EXCEPT ![d].pc = "done"]
           ELSE /\ Abort(d, "complete_expire")
                /\ UNCHANGED ttl
    /\ UNCHANGED <<jobs, submitted, store, redisUp, poll, last, seen>>
    /\ UNCHANGED <<db, lst, sc>>

\* except Exception: redis_client.hset(key, "status", "failed"); an
\* exception raised here leaves the handler at once
RunFailStatus(d) ==
    /\ w[d].pc = "fail_status"
    /\ LET k == w[d].job
       IN  IF redisUp
           THEN /\ store' = [store EXCEPT ![k] = HSetHash(@,
                       [status |-> "failed"])]
                /\ ttl' = [ttl EXCEPT ![k] = HSetTTL(k)]
                /\ w' = [w EXCEPT ![d].pc = "fail_error"]
           ELSE /\ w' = [w EXCEPT ![d].pc = "raised"]
                /\ UNCHANGED <<store, ttl>>
    /\ UNCHANGED <<jobs, submitted, redisUp, poll, last, seen>>
    /\ UNCHANGED <<db, lst, sc>>

\* redis_client.hset(key, "error", str(e)); raise
RunFailError(d) ==
    /\ w[d].pc = "fail_error"
    /\ LET k == w[d].job
       IN  IF redisUp
           THEN /\ store' = [store EXCEPT ![k] = HSetHash(@,
                       [error |-> "exception"])]
                /\ ttl' = [ttl EXCEPT ![k] = HSetTTL(k)]
           ELSE UNCHANGED <<store, ttl>>
    /\ w' = [w EXCEPT ![d].pc = "raised"]
    /\ UNCHANGED <<jobs, submitted, redisUp, poll, last, seen>>
    /\ UNCHANGED <<db, lst, sc>>

(***************************************************************************)
(* Submit: batch_score_articles_async_endpoint                             *)
(***************************************************************************)
\* no Status response yet
NoResponse == [status |-> "none"]

NoSubmission == [task_id |-> 0, status |-> "none", total_articles |-> 0]

Rejected == [task_id |-> 0, status |-> "rejected", total_articles |-> 0]

NoJob == [accepted |-> FALSE, ids |-> <<>>, persona |-> FALSE]

FreeSlots == {d \in Slots : w[d].pc = "free"}

FirstFree == CHOOSE d \in FreeSlots : \A e \in FreeSlots : d <= e

UnusedIds == {j \in TaskIds : ~jobs[j].accepted}

\* if not article_ids or not persona: raise HTTPException(400)
SubmitRejected(ids, hasPersona) ==
    /\ ids = <<>> \/ ~hasPersona
    /\ submitted' = Rejected
    /\ UNCHANGED <<jobs, store, ttl, redisUp, w, poll, last, seen>>
    /\ UNCHANGED <<db, lst, sc>>

\* the request is enqueued without the check of article_ids and persona
SubmitAcceptedUnvalidated(ids, hasPersona) ==
    /\ UnusedIds # {} /\ FreeSlots # {}
    /\ LET j == CHOOSE x \in UnusedIds : \A y \in UnusedIds : x <= y
       IN  /\ jobs' = [jobs EXCEPT ![j] = [accepted |-> TRUE, ids |-> ids,
                                           persona |-> hasPersona]]
           /\ w' = [w EXCEPT ![FirstFree] = QueuedWorker(j)]
           /\ submitted' = [task_id |-> j, status |-> "processing",
                            total_articles |-> Len(ids)]
           /\ last' = [last EXCEPT ![j] = NoResponse]
           /\ seen' = [seen EXCEPT ![j] = -1]
    /\ UNCHANGED <<store, ttl, redisUp, poll>>
    /\ UNCHANGED <<db, lst, sc>>

\* task = batch_score_articles_async.delay(article_ids, persona)
\* return {"task_id": task.id, "status": "processing", "total_articles": n}
SubmitAccepted(ids, hasPersona) ==
    /\ ids # <<>> /\ hasPersona
    /\ UnusedIds # {} /\ FreeSlots # {}
    /\ LET j == CHOOSE x \in UnusedIds : \A y \in UnusedIds : x <= y
       IN  /\ jobs' = [jobs EXCEPT ![j] = [accepted |-> TRUE, ids |-> ids,
                                           persona |-> hasPersona]]
           /\ w' = [w EXCEPT ![FirstFree] = QueuedWorker(j)]
           /\ submitted' = [task_id |-> j, status |-> "processing",
                            total_articles |-> Len(ids)]
           /\ last' = [last EXCEPT ![j] = NoResponse]
           /\ seen' = [seen EXCEPT ![j] = -1]
    /\ UNCHANGED <<store, ttl, redisUp, poll>>
    /\ UNCHANGED <<db, lst, sc>>

\* the broker delivers the message of an accepted task once more
Redeliver(j) ==
    /\ jobs[j].accepted
    /\ FreeSlots # {}
    /\ w' = [w EXCEPT ![FirstFree] = QueuedWorker(j)]
    /\ UNCHANGED <<jobs, submitted, store, ttl, redisUp, poll, last, seen>>
    /\ UNCHANGED <<db, lst, sc>>

(***************************************************************************)
(* Status: get_batch_score_status                                          *)
(***************************************************************************)
\* the document returned when the key does not exist
ExpiredDoc ==
    [status |-> "expired", processed |-> 0, total |-> 0,
     progress_percentage |-> 0, results |-> <<>>,
     error |-> "Task expired or not found"]

\* the document returned by the except branch of the endpoint
ErrorDoc ==
    [status |-> "error", processed |-> 0, total |-> 0,
     progress_percentage |-> 0, results |-> <<>>, error |-> "exception"]

\* Python round(): to the nearest integer, ties to the even one
RoundHalfEven(num, den) ==
    LET q == num \div den
        r == num % den
    IN  IF 2 * r < den THEN q
        ELSE IF 2 * r > den THEN q + 1
        ELSE IF q % 2 = 0 THEN q ELSE q + 1

\* round((processed / total) * 100) when both fields are there and total > 0
ProgressPercentage(h) ==
    IF "total" \in DOMAIN h /\ "processed" \in DOMAIN h /\ h.total > 0
    THEN RoundHalfEven(100 * h.processed, h.total)
    ELSE 0

\* task_data as returned: the fields of the hash (results parsed from JSON,
\* total and processed converted to int) plus progress_percentage
TaskData(h) == HSetHash(h, [progress_percentage |-> ProgressPercentage(h)])

\* task_data["processed"] and task_data["status"] are read unguarded
RaisesKeyError(h) == "processed" \notin DOMAIN h \/ "status" \notin DOMAIN h

IdlePoll == [pc |-> "idle", task_id |-> 0, task_data |-> NoHash]

\* the documents built from the job's entry, as opposed to the two above
ReadFromEntry(doc) == doc.status \in {"processing", "completed", "failed"}

Max(a, b) == IF a > b THEN a ELSE b

Respond(k, doc) ==
    /\ last' = [last EXCEPT ![k] = doc]
    /\ seen' = [seen EXCEPT ![k] =
                  IF ReadFromEntry(doc) THEN Max(@, doc.processed) ELSE @]
    /\ poll' = IdlePoll

\* the poll of an absent key leaves a placeholder entry behind
StatusExistsCreatesEntry(k) ==
    /\ poll.pc = "idle"
    /\ IF ~redisUp
       THEN Respond(k, ErrorDoc) /\ UNCHANGED <<store, ttl>>
       ELSE IF ~Exists(k)
       THEN /\ Respond(k, ExpiredDoc)
            /\ store' = [store EXCEPT ![k] = [status |-> "expired"]]
            /\ ttl' = [ttl EXCEPT ![k] = -1]
       ELSE /\ poll' = [pc |-> "hgetall", task_id |-> k, task_data |-> NoHash]
            /\ UNCHANGED <<last, seen, store, ttl>>
    /\ UNCHANGED <<jobs, submitted, redisUp, w>>
    /\ UNCHANGED <<db, lst, sc>>

\* if not redis_client.exists(key): return {"status": "expired", ...}
StatusExists(k) ==
    /\ poll.pc = "idle"
    /\ IF ~redisUp THEN Respond(k, ErrorDoc)
       ELSE IF ~Exists(k) THEN Respond(k, ExpiredDoc)
       ELSE /\ poll' = [pc |-> "hgetall", task_id |-> k, task_data |-> NoHash]
            /\ UNCHANGED <<last, seen>>
    /\ UNCHANGED <<jobs, submitted, store, ttl, redisUp, w>>
    /\ UNCHANGED <<db, lst, sc>>

\* the poll that reads a completed job removes its entry
StatusReadDeletesCompleted ==
    /\ poll.pc = "hgetall"
    /\ LET k == poll.task_id
           h == store[k]
       IN  /\ IF ~redisUp \/ RaisesKeyError(h) THEN Respond(k, ErrorDoc)
              ELSE IF h.status \in {"processing", "completed"}
              THEN /\ poll' = [pc |-> "expire", task_id |-> k,
                               task_data |-> TaskData(h)]
                   /\ UNCHANGED <<last, seen>>
              ELSE Respond(k, TaskData(h))
           /\ IF redisUp /\ ("status" \in DOMAIN h /\ h.status = "completed")
              THEN /\ store' = [store EXCEPT ![k] = NoHash]
                   /\ ttl' = [ttl EXCEPT ![k] = -2]
              ELSE UNCHANGED <<store, ttl>>
    /\ UNCHANGED <<jobs, submitted, redisUp, w>>
    /\ UNCHANGED <<db, lst, sc>>

\* task_data = redis_client.hgetall(key) and the conversions up to the
\* choice of the TTL to re-arm
StatusRead ==
    /\ poll.pc = "hgetall"
    /\ LET k == poll.task_id
           h == store[k]
       IN  IF ~redisUp \/ RaisesKeyError(h) THEN Respond(k, ErrorDoc)
           ELSE IF h.status \in {"processing", "completed"}
           THEN /\ poll' = [pc |-> "expire", task_id |-> k,
                            task_data |-> TaskData(h)]
                /\ UNCHANGED <<last, seen>>
           ELSE Respond(k, TaskData(h))
    /\ UNCHANGED <<jobs, submitted, store, ttl, redisUp, w>>
    /\ UNCHANGED <<db, lst, sc>>

\* the poll returns task_data without issuing the expire
StatusExpireNoRearm ==
    /\ poll.pc = "expire"
    /\ IF redisUp THEN Respond(poll.task_id, poll.task_data)
       ELSE Respond(poll.task_id, ErrorDoc)
    /\ UNCHANGED <<jobs, submitted, store, ttl, redisUp, w>>
    /\ UNCHANGED <<db, lst, sc>>

\* redis_client.expire(key, 1800 | 3600); return task_data
StatusExpire ==
    /\ poll.pc = "expire"
    /\ LET k == poll.task_id
           secs == IF poll.task_data.status = "processing"
                   THEN PollProcessingTTL ELSE PollCompletedTTL
       IN  IF redisUp
           THEN /\ ttl' = [ttl EXCEPT ![k] = ExpireTTL(k, secs)]
                /\ Respond(k, poll.task_data)
           ELSE /\ Respond(k, ErrorDoc)
                /\ UNCHANGED ttl
    /\ UNCHANGED <<jobs, submitted, store, redisUp, w>>
    /\ UNCHANGED <<db, lst, sc>>

(***************************************************************************)
(* Listing: get_articles_with_persona, and batch_score_articles            *)
(*                                                                         *)
(* Scores are percentages.  The rows of the articles table are fetched     *)
(* into ORM objects of the request's session; an assignment to             *)
(* article.relevance_score marks the object dirty and the next commit of   *)
(* the session writes it to the row.                                       *)
(***************************************************************************)
\* all_industries = [i.value for i in Industry]: five members
NumIndustries == 5

\* the relevance_score the rows carry before any request
StoredScore == 50

\* processor._calculate_persona_relevance_fallback(article, persona) for
\* the persona of the request, in percent
FallbackScore(id) == IF id % 2 = 1 THEN 30 ELSE 60

\* processor.calculate_combined_relevance_score(article, persona) for the
\* persona of the request: one call of the model per article scored
CombinedScore(id) == IF id <= 2 THEN 15 ELSE 85

NoRequest == [endpoint |-> "none"]

\* articles_per_industry = max(1, limit // len(all_industries)), fetched
\* once per industry
BalancedFetchCap(limit) == NumIndustries * Max(1, limit \div NumIndustries)

\* expanded_limit = min(500, limit * 3)
ExpandedFetchCap(limit) == Min(500, limit * 3)

\* the lists of rows a query may return
Fetched == {SortedSeq(S) : S \in SUBSET ArticleTable}

\* llm_scoring_limit = min(len(articles), int(limit * 1.5))
BalancedLLMLimit(n, limit) == Min(n, (3 * limit) \div 2)

\* llm_candidates = min(len(expanded_articles), limit * 2)
ExpandedLLMLimit(n, limit) == Min(n, limit * 2)

\* the ORM objects of the rows fetched
Objects(rows) ==
    [i \in DOMAIN rows |-> [id |-> rows[i], relevance_score |-> db[rows[i]]]]

\* list.sort(key=lambda a: a.relevance_score, reverse=True) is stable: x
\* goes behind the elements with a score at least as high
InsertSorted(s, x) ==
    LET n == Cardinality({i \in DOMAIN s :
                             s[i].relevance_score >= x.relevance_score})
    IN  SubSeq(s, 1, n) \o <<x>> \o SubSeq(s, n + 1, Len(s))

RECURSIVE SortByScore(_)
SortByScore(s) ==
    IF s = <<>> THEN <<>>
    ELSE InsertSorted(SortByScore(SubSeq(s, 1, Len(s) - 1)), s[Len(s)])

\* for article in articles: article.relevance_score = fallback(article)
FirstPass(objs) ==
    [i \in DOMAIN objs |->
        [objs[i] EXCEPT !.relevance_score = FallbackScore(objs[i].id)]]

\* for i in range(k): articles[i].relevance_score = combined(articles[i])
SecondPass(objs, k) ==
    [i \in DOMAIN objs |->
        IF i <= k
        THEN [objs[i] EXCEPT !.relevance_score = CombinedScore(objs[i].id)]
        ELSE objs[i]]

\* use_llm: fallback for all, sort, combined score for the first k, sort
TwoPass(objs, k) ==
    SortByScore(SecondPass(SortByScore(FirstPass(objs)), k))

\* not use_llm: calculate_combined_relevance_score for every article, sort
FullPass(objs) == SortByScore(SecondPass(objs, Len(objs)))

\* db.commit(): the dirty objects of the session are written to their rows
Commit(objs) ==
    [r \in ArticleTable |->
        IF \E i \in DOMAIN objs : objs[i].id = r
        THEN LET i == CHOOSE j \in DOMAIN objs : objs[j].id = r
             IN  objs[i].relevance_score
        ELSE db[r]]

\* POST /articles/ with sort_by relevance_score, sort_order desc, offset 0
ListArticles(limit, balanced, use_llm, persona, rows) ==
    LET n == Len(rows)
        objs == Objects(rows)
        k == IF balanced THEN BalancedLLMLimit(n, limit)
             ELSE ExpandedLLMLimit(n, limit)
        scored == IF ~persona THEN objs
                  ELSE IF use_llm THEN TwoPass(objs, k)
                  ELSE FullPass(objs)
    IN  /\ n <= (IF balanced THEN BalancedFetchCap(limit)
                  ELSE IF persona THEN ExpandedFetchCap(limit)
                  ELSE limit)
        /\ lst' = [endpoint |-> "list", limit |-> limit,
                   balanced |-> balanced, use_llm |-> use_llm,
                   persona |-> persona, candidates |-> n,
                   oracle_calls |-> IF ~persona THEN 0
                                    ELSE IF use_llm THEN k ELSE n,
                   articles |-> SubSeq(scored, 1, Min(limit, n))]
        \* update_articles_timestamp(db) commits the session
        /\ db' = IF persona THEN Commit(scored) ELSE db
        /\ UNCHANGED <<jobs, submitted, store, ttl, redisUp, w, poll, last,
                       seen, sc>>

\* POST /articles/batch-score: the scores go into the response only; the
\* commit of update_articles_timestamp finds no dirty article
BatchScore(ids, hasPersona) ==
    /\ ids # <<>> /\ hasPersona
    /\ LET articles == QueryArticles(ids)
       IN  lst' = [endpoint |-> "batch-score",
                   scored_articles |->
                       BatchResults(articles, ScoreBatch(articles))]
    /\ UNCHANGED <<jobs, submitted, store, ttl, redisUp, w, poll, last,
                   seen, db, sc>>

(***************************************************************************)
(* pipeline/processor.py: the scoring functions of ArticleProcessor        *)
(***************************************************************************)
\* scores are fixed-point numbers: Unit stands for 1.0
Unit == 1000000

\* the oldest article scored, in whole days
MaxDays == 4

\* the most terms a persona attribute splits into
MaxTerms == 2

\* max(0.0, min(1.0, x))
Clamp(x) == Max(0, Min(Unit, x))

\* math.exp(-0.5 * d) to five decimals, for d = 0, 1, 2, ...
ExpDecay ==
    <<1000000, 606530, 367880, 223130, 135340, 82080, 49790, 30200, 18320,
      11110, 6740, 4090, 2480>>

\* article.published_at: None, or a time days_old whole days before now
\* ((now - pub_date).days, negative for a time still to come)
PublishedAts ==
    {[known |-> FALSE, days_old |-> 0]} \cup
    {[known |-> TRUE, days_old |-> d] : d \in -1 .. MaxDays}

\* article.industry: unset, or an industry tag
Industries == {"none", "bfsi"}

\* the articles scored: the fields the scoring functions read
Articles ==
    {[published_at |-> p, industry |-> i] :
        p \in PublishedAts, i \in Industries}

\* a text attribute of the persona against the article's title and
\* summary: not given, or split into `terms` terms of which `matches` occur
\* in the content; `mentioned`: the whole attribute occurs in the content
Attributes ==
    {[given |-> FALSE, mentioned |-> FALSE, terms |-> 0, matches |-> 0]} \cup
    {[given |-> TRUE, mentioned |-> FALSE, terms |-> t, matches |-> m] :
        t \in 0 .. MaxTerms, m \in 0 .. MaxTerms} \cup
    {[given |-> TRUE, mentioned |-> TRUE, terms |-> 1, matches |-> 0]}

\* jobTitle and conversationContext are matched by their terms only
TermAttributes == {a \in Attributes : ~a.mentioned /\ a.matches <= a.terms}

\* company is matched whole first, then by its terms
CompanyAttributes == {a \in Attributes : a.matches <= a.terms}

\* the persona dicts of a request; industry is what
\* _infer_industry_from_text makes of "<jobTitle> <company>"
Personas ==
    {[jobTitle |-> j, company |-> c, conversationContext |-> x,
      industry |-> i] :
        j \in TermAttributes, c \in CompanyAttributes, x \in TermAttributes,
        i \in {"bfsi", "other"}}

\* persona = None
NoPersona == [none |-> TRUE]

\* the reply of the chat completion: a text float() parses, a text it does
\* not parse, or no reply because the call raised
OracleValues ==
    {0 - (Unit \div 2), Unit \div 4, (3 * Unit) \div 4, (3 * Unit) \div 2}

Replies ==
    {[kind |-> "number", value |-> v] : v \in OracleValues} \cup
    {[kind |-> "unparseable", value |-> 0], [kind |-> "failed", value |-> 0]}

\* the negative age of an article dated tomorrow is not clamped to 0
CalculateRelevanceScoreNoClamp(article) ==
    IF ~article.published_at.known THEN 0
    ELSE IF article.published_at.days_old < 0 THEN 1648720
    ELSE ExpDecay[article.published_at.days_old + 1]

\* _calculate_relevance_score: recency_score = 0.0; if published_at:
\* recency_score = math.exp(-0.5 * max(0, days_old))
CalculateRelevanceScore(article) ==
    IF ~article.published_at.known THEN 0
    ELSE ExpDecay[Max(0, article.published_at.days_old) + 1]

\* min(1.0, matches / max(1, len(job_terms)))
JobTitleScore(a) ==
    IF ~a.given THEN 0
    ELSE Min(Unit, (a.matches * Unit) \div Max(1, a.terms))

\* 1.0 when the name occurs, else min(0.7, matches / max(1, len(terms)))
CompanyScore(a) ==
    IF ~a.given THEN 0
    ELSE IF a.mentioned THEN Unit
    ELSE Min((7 * Unit) \div 10, (a.matches * Unit) \div Max(1, a.terms))

\* min(1.0, matches / max(1, len(significant_terms) * 0.5))
ContextScore(a) ==
    IF ~a.given \/ a.terms = 0 THEN 0
    ELSE Min(Unit, (2 * a.matches * Unit) \div Max(2, a.terms))

\* if article.industry and job_title: 1.0 when the inferred industry is the
\* article's, else 0.3
IndustryScore(article, persona) ==
    IF article.industry = "none" \/ ~persona.jobTitle.given THEN 0
    ELSE IF persona.industry = article.industry THEN Unit
    ELSE (3 * Unit) \div 10

\* _calculate_persona_relevance_fallback: the weighted sum, clamped
CalculatePersonaRelevanceFallback(article, persona) ==
    Clamp((25 * JobTitleScore(persona.jobTitle)
           + 15 * CompanyScore(persona.company)
           + 40 * ContextScore(persona.conversationContext)
           + 20 * IndustryScore(article, persona)) \div 100)

\* calculate_combined_relevance_score, the persona component:
\* persona_score = max(0.0, min(1.0, float(result))); 0.5 on ValueError and
\* on any other exception
PersonaScore(reply) ==
    IF reply.kind = "number" THEN Clamp(reply.value) ELSE Unit \div 2

\* the weights of recency and persona change places
CombineSwapped(recency_score, persona_score) ==
    Clamp((7 * recency_score + 3 * persona_score) \div 10)

\* final_score = (w1 * recency_score) + (w2 * persona_score), clamped
Combine(recency_score, persona_score) ==
    Clamp((3 * recency_score + 7 * persona_score) \div 10)

\* calculate_combined_relevance_score(article, persona)
CalculateCombinedRelevanceScore(article, persona, reply) ==
    IF persona = NoPersona THEN CalculateRelevanceScore(article)
    ELSE Combine(CalculateRelevanceScore(article), PersonaScore(reply))

\* no scoring function called
NoCall == [fn |-> "none", pc |-> "none"]

\* a caller invokes one of the scoring functions with its arguments (a
\* behaviour follows one call from its arguments to its return value)
CallRecency ==
    /\ sc = NoCall
    /\ \E a \in Articles :
          sc' = [fn |-> "_calculate_relevance_score", pc |-> "called",
                 article |-> a]
    /\ UNCHANGED <<jobs, submitted, store, ttl, redisUp, w, poll, last,
                   seen, db, lst>>

CallFallback ==
    /\ sc = NoCall
    /\ \E a \in Articles, p \in Personas :
          sc' = [fn |-> "_calculate_persona_relevance_fallback",
                 pc |-> "called", article |-> a, persona |-> p]
    /\ UNCHANGED <<jobs, submitted, store, ttl, redisUp, w, poll, last,
                   seen, db, lst>>

CallCombined ==
    /\ sc = NoCall
    /\ \E a \in Articles, p \in Personas \cup {NoPersona}, r \in Replies :
          sc' = [fn |-> "calculate_combined_relevance_score",
                 pc |-> "called", article |-> a, persona |-> p, reply |-> r]
    /\ UNCHANGED <<jobs, submitted, store, ttl, redisUp, w, poll, last,
                   seen, db, lst>>

ScoreRecency ==
    /\ sc.fn = "_calculate_relevance_score" /\ sc.pc = "called"
    /\ sc' = [fn |-> sc.fn, pc |-> "returned", article |-> sc.article,
              score |-> CalculateRelevanceScore(sc.article)]
    /\ UNCHANGED <<jobs, submitted, store, ttl, redisUp, w, poll, last,
                   seen, db, lst>>

ScoreFallback ==
    /\ sc.fn = "_calculate_persona_relevance_fallback" /\ sc.pc = "called"
    /\ sc' = [fn |-> sc.fn, pc |-> "returned", article |-> sc.article,
              persona |-> sc.persona,
              score |-> CalculatePersonaRelevanceFallback(sc.article,
                                                          sc.persona)]
    /\ UNCHANGED <<jobs, submitted, store, ttl, redisUp, w, poll, last,
                   seen, db, lst>>

\* the model is called once whenever a persona is given; neither failure
\* of the reply leaves the function as an exception
ScoreCombined ==
    /\ sc.fn = "calculate_combined_relevance_score" /\ sc.pc = "called"
    /\ sc' = [fn |-> sc.fn, pc |-> "returned", article |-> sc.article,
              persona |-> sc.persona, reply |-> sc.reply,
              oracle_calls |-> IF sc.persona = NoPersona THEN 0 ELSE 1,
              raised |-> FALSE,
              recency_score |-> CalculateRelevanceScore(sc.article),
              persona_score |-> PersonaScore(sc.reply),
              score |-> CalculateCombinedRelevanceScore(sc.article,
                                                        sc.persona, sc.reply)]
    /\ UNCHANGED <<jobs, submitted, store, ttl, redisUp, w, poll, last,
                   seen, db, lst>>

(***************************************************************************)
(* Environment: the clock and the reachability of the store                *)
(***************************************************************************)
\* TickSeconds pass: every key with a TTL loses them and is deleted at 0
Tick ==
    /\ \E k \in TaskIds : ttl[k] > 0
    /\ ttl' = [k \in TaskIds |->
                 IF ttl[k] <= 0 THEN ttl[k]
                 ELSE IF ttl[k] > TickSeconds THEN ttl[k] - TickSeconds
                 ELSE -2]
    /\ store' = [k \in TaskIds |->
                 IF ttl[k] > 0 /\ ttl[k] <= TickSeconds THEN NoHash
                 ELSE store[k]]
    /\ UNCHANGED <<jobs, submitted, redisUp, w, poll, last, seen>>
    /\ UNCHANGED <<db, lst, sc>>

StoreDown ==
    /\ redisUp
    /\ redisUp' = FALSE
    /\ UNCHANGED <<jobs, submitted, store, ttl, w, poll, last, seen>>
    /\ UNCHANGED <<db, lst, sc>>

StoreUp ==
    /\ ~redisUp
    /\ redisUp' = TRUE
    /\ UNCHANGED <<jobs, submitted, store, ttl, w, poll, last, seen>>
    /\ UNCHANGED <<db, lst, sc>>

(***************************************************************************)
(* Specifications                                                          *)
(***************************************************************************)
Init ==
    /\ jobs = [j \in TaskIds |-> NoJob]
    /\ submitted = NoSubmission
    /\ store = [k \in TaskIds |-> NoHash]
    /\ ttl = [k \in TaskIds |-> -2]
    /\ redisUp = TRUE
    /\ w = [d \in Slots |-> FreeWorker]
    /\ poll = IdlePoll
    /\ last = [k \in TaskIds |-> NoResponse]
    /\ seen = [k \in TaskIds |-> -1]
    /\ db = [r \in ArticleTable |-> StoredScore]
    /\ lst = NoRequest
    /\ sc = NoCall

Submit ==
    \/ /\ submitted.status = "none"
       /\ \E ids \in IdLists, hasPersona \in BOOLEAN :
             SubmitRejected(ids, hasPersona)
    \/ /\ UnusedIds # {}
       /\ \E ids \in IdLists, hasPersona \in BOOLEAN :
             SubmitAccepted(ids, hasPersona)

RunStep(d) ==
    \/ RunInit(d)
    \/ RunInitExpire(d)
    \/ RunSkipEmpty(d)
    \/ RunScore(d)
    \/ RunWriteProcessed(d)
    \/ RunWriteResults(d)
    \/ RunLoopEnd(d)
    \/ RunComplete(d)
    \/ RunCompleteExpire(d)
    \/ RunFailStatus(d)
    \/ RunFailError(d)

RunFault(d) ==
    \/ RunFetchFails(d)
    \/ RunScoreFails(d)

Status ==
    \/ \E k \in TaskIds : StatusExists(k)
    \/ StatusRead
    \/ StatusExpire

Next ==
    \/ Submit
    \/ \E d \in Slots : RunStep(d)
    \/ \E d \in Slots : RunFault(d)
    \/ Status
    \/ Tick
    \/ StoreDown
    \/ StoreUp

Spec == Init /\ [][Next]_vars

\* at-least-once delivery: the broker may deliver the message of a task
\* once more, to a worker that runs it alongside or after the first run
\* (the store stays reachable and nobody polls)
NextRedeliver ==
    \/ \E ids \in IdLists, hasPersona \in BOOLEAN :
          SubmitAccepted(ids, hasPersona)
    \/ \E j \in TaskIds : Redeliver(j)
    \/ \E d \in Slots : RunStep(d)
    \/ \E d \in Slots : RunFault(d)
    \/ Tick

SpecRedeliver == Init /\ [][NextRedeliver]_vars

\* the requests that rank or score articles for a persona
List ==
    \E limit \in 1 .. MaxLimit, balanced, use_llm, persona \in BOOLEAN :
        \E rows \in Fetched :
            ListArticles(limit, balanced, use_llm, persona, rows)

NextListing ==
    \/ List
    \/ \E ids \in IdLists : BatchScore(ids, TRUE)

SpecListing == Init /\ [][NextListing]_vars

\* the scoring functions, each applied to one of its inputs
NextScoring ==
    \/ CallRecency
    \/ CallFallback
    \/ CallCombined
    \/ ScoreRecency
    \/ ScoreFallback
    \/ ScoreCombined

SpecScoring == Init /\ [][NextScoring]_vars

(***************************************************************************)
(* Properties                                                              *)
(***************************************************************************)
Accepted == {k \in TaskIds : jobs[k].accepted}

\* the runs of task k
RunsOf(k) == {d \in Slots : w[d].pc # "free" /\ w[d].job = k}

\* C1: every Status response that found the job's entry carries a results
\* list whose length equals its processed count.
C1_ResultsLengthEqualsProcessed ==
    \A k \in Accepted :
        ReadFromEntry(last[k]) =>
            /\ "results" \in DOMAIN last[k]
            /\ Len(last[k].results) = last[k].processed

C3_TotalAlwaysN ==
    [][\A k \in Accepted :
          (last'[k] # last[k] /\ \E d \in RunsOf(k) : w[d].pc # "queued") =>
              /\ "total" \in DOMAIN last'[k]
              /\ last'[k].total = Len(jobs[k].ids)]_vars

\* C3 (amended): a Status response read from the job's entry reports
\* total = n whenever it carries a total; the expired and error documents
\* report total = 0.
C3_TotalIsNOrSynthetic ==
    \A k \in Accepted :
        /\ (ReadFromEntry(last[k]) /\ "total" \in DOMAIN last[k]) =>
               last[k].total = Len(jobs[k].ids)
        /\ last[k].status \in {"expired", "error"} => last[k].total = 0

\* a completed job of three ids was polled and reported total 3
C3_Witness ==
    \E k \in Accepted :
        /\ last[k].status = "completed"
        /\ "total" \in DOMAIN last[k]
        /\ last[k].total = 3 /\ Len(jobs[k].ids) = 3

StoredStatus(h) == IF "status" \in DOMAIN h THEN h.status ELSE "none"

\* C4: once the stored status is completed or failed, no step changes it
\* (the entry may only disappear when its TTL elapses).
C4_TerminalStatusFrozen ==
    [][\A k \in TaskIds :
          StoredStatus(store[k]) \in {"completed", "failed"} =>
              \/ StoredStatus(store'[k]) = StoredStatus(store[k])
              \/ store'[k] = NoHash]_vars

\* C5: a Status response obtained after Submit returned and before the run
\* has scored anything reports processing, total = n and processed = 0.
C5_RecordExistsOnSubmit ==
    \A k \in Accepted :
        (last[k].status # "none" /\ \A d \in RunsOf(k) : w[d].pc = "queued")
            => /\ last[k].status = "processing"
               /\ last[k].total = Len(jobs[k].ids)
               /\ last[k].processed = 0

\* every id is distinct and names a row of the articles table
AllResolve(ids) ==
    /\ Range(ids) \subseteq ArticleTable
    /\ \A i, j \in DOMAIN ids : ids[i] = ids[j] => i = j

\* C6: when all n ids resolve and no chunk failed, the step that stores
\* status completed leaves an entry with processed = n and n results.
C6_CompletesWithAllScored ==
    [][\A d \in Slots :
          (/\ w[d].pc = "complete" /\ w'[d].pc = "complete_expire"
           /\ ~w[d].chunkFailed
           /\ AllResolve(jobs[w[d].job].ids))
          => LET h == store'[w[d].job]
                 n == Len(jobs[w[d].job].ids)
             IN  /\ StoredStatus(h) = "completed"
                 /\ "processed" \in DOMAIN h /\ h.processed = n
                 /\ "results" \in DOMAIN h /\ Len(h.results) = n]_vars

\* C7: an error raised by a step of a chunk never aborts the run.
C7_ChunkErrorNeverAborts ==
    \A d \in Slots :
        w[d].pc \in {"fail_status", "fail_error", "raised"} =>
            w[d].raisedAt # "fetch"

\* C8: a run stores status failed only for an error raised while it
\* initialised the job, before its first chunk.
C8_FailedOnlyFromInit ==
    \A d \in Slots :
        w[d].pc = "fail_error" => w[d].raisedAt \in {"init", "init_expire"}

\* C9: after a run whose initial write found the store unreachable has
\* ended, a Status response for the job, produced while the store is
\* reachable again, reports status failed.
C9_InitFailureReportedFailed ==
    [][\A k \in Accepted :
          (/\ last'[k] # last[k] /\ redisUp
           /\ \E d \in RunsOf(k) : w[d].pc = "raised" /\ w[d].raisedAt = "init")
          => last'[k].status = "failed"]_vars

\* C10: a progress write that failed has been issued twice by the time the
\* run moves on to the next chunk.
C10_FailedWriteRetriedOnce ==
    \A d \in Slots : w[d].writeAttempts \in {0, 2}

Scored(k) ==
    UNION {{w[d].all_results[i].id : i \in DOMAIN w[d].all_results} :
              d \in RunsOf(k)}

\* C12: when a job has been delivered twice, the stored processed never
\* exceeds the number of distinct articles scored for the job.
C12_ProcessedAtMostDistinctScored ==
    \A k \in Accepted :
        (Cardinality(RunsOf(k)) = 2 /\ "processed" \in DOMAIN store[k]) =>
            store[k].processed <= Cardinality(Scored(k))

\* the step in which a poll returns a document with status processing
ReturnsProcessing ==
    /\ poll.pc = "expire" /\ poll'.pc = "idle"
    /\ last'[poll.task_id].status = "processing"

C14_ProgressWriteRefreshesTTL ==
    [][\A d \in Slots :
          (/\ w[d].pc \in {"w_processed", "w_results"}
           /\ w'[d].pc # w[d].pc /\ redisUp
           /\ StoredStatus(store[w[d].job]) = "processing")
          => ttl'[w[d].job] = RunProcessingTTL]_vars

\* C15: every document Status returns carries status, processed, total,
\* progress_percentage and results, and its status is one of processing,
\* completed, failed, expired, not_found.
C15_StatusDocumentWellFormed ==
    \A k \in TaskIds :
        last[k].status # "none" =>
            /\ {"status", "processed", "total", "progress_percentage",
                "results"} \subseteq DOMAIN last[k]
            /\ last[k].status \in {"processing", "completed", "failed",
                                   "expired", "not_found"}

C17_InvalidSubmissionRejected ==
    [][/\ (submitted' # submitted /\ submitted'.status = "rejected") =>
             (/\ submitted'.task_id = 0
              /\ UNCHANGED <<jobs, w, store, ttl>>)
       /\ \A k \in TaskIds :
             (jobs'[k].accepted \/ DOMAIN store'[k] # {}) =>
                 (/\ jobs'[k].accepted
                  /\ jobs'[k].ids # <<>>
                  /\ jobs'[k].persona)
       /\ \A d \in Slots :
             w'[d].pc # "free" =>
                 (/\ jobs'[w'[d].job].accepted
                  /\ jobs'[w'[d].job].ids # <<>>
                  /\ jobs'[w'[d].job].persona)]_vars

\* a submission has just been rejected: no job, no task, no entry
C17_Witness ==
    /\ submitted = Rejected
    /\ \A k \in TaskIds : ~jobs[k].accepted /\ ~Exists(k)
    /\ \A d \in Slots : w[d].pc = "free"

\* the positions of the id list that name a row of the articles table
Resolving(ids) == {i \in DOMAIN ids : ids[i] \in ArticleTable}

\* C18: ids that resolve to no article are skipped: no result carries such
\* an id and a run counts at most the ids that resolve; a run that is past
\* its last chunk has stored status completed in an entry without an error
\* field (which stays so until it expires); and wherever processed and
\* total are both stored or returned, 0 <= processed <= total.
C18_MissingIdsSkipped ==
    /\ \A d \in Slots :
          w[d].pc # "free" =>
              LET ids == jobs[w[d].job].ids
                  res == w[d].all_results
              IN  /\ \A i \in DOMAIN res :
                        res[i].id \in ArticleTable \cap Range(ids)
                  /\ w[d].processed_count = Len(res)
                  /\ Len(res) <= Cardinality(Resolving(ids))
    /\ \A d \in Slots :
          w[d].pc \in {"complete_expire", "done"} =>
              \/ ~Exists(w[d].job)
              \/ /\ StoredStatus(store[w[d].job]) = "completed"
                 /\ "error" \notin DOMAIN store[w[d].job]
    /\ \A k \in TaskIds :
          /\ {"processed", "total"} \subseteq DOMAIN store[k] =>
                (0 <= store[k].processed
                    /\ store[k].processed <= store[k].total)
          /\ {"processed", "total"} \subseteq DOMAIN last[k] =>
                (0 <= last[k].processed
                    /\ last[k].processed <= last[k].total)

\* a job that names a deleted article has completed with fewer processed
\* than total and no error
C18_Witness ==
    \E d \in Slots :
        /\ w[d].pc = "done"
        /\ Cardinality(Resolving(jobs[w[d].job].ids)) < Len(jobs[w[d].job].ids)
        /\ StoredStatus(store[w[d].job]) = "completed"
        /\ {"processed", "total"} \subseteq DOMAIN store[w[d].job]
        /\ "error" \notin DOMAIN store[w[d].job]
        /\ store[w[d].job].processed > 0
        /\ store[w[d].job].processed < store[w[d].job].total

\* C19: no listing request and no batch-score request changes the
\* persisted relevance_score of an article.
C19_ArticlesReadOnly ==
    [][db' = db]_vars

\* C20: a listing request with a persona and limit L issues at most
\* ceil(1.5 * L) calls of the model at the balanced call site and at most
\* 2 * L at the expanded-fetch call site.
C20_OracleCallsAtMostK ==
    (lst.endpoint = "list" /\ lst.persona) =>
        lst.oracle_calls <= (IF lst.balanced THEN (3 * lst.limit + 1) \div 2
                             ELSE 2 * lst.limit)


\* C21: when the reply of the model for an article cannot be parsed as a
\* number, or the call fails, no error leaves the scoring function and the
\* persona component of the article's final score is the score of the
\* local fallback heuristic for that article and persona.
C21_OracleFailureUsesFallback ==
    (/\ sc.fn = "calculate_combined_relevance_score"
     /\ sc.pc = "returned"
     /\ sc.persona # NoPersona
     /\ sc.reply.kind # "number") =>
        (/\ ~sc.raised
         /\ sc.persona_score =
               CalculatePersonaRelevanceFallback(sc.article, sc.persona))

\* C22: the fallback heuristic returns a value between 0.3 and 1.0 for
\* every article and persona, and exactly 0.3 when the persona carries no
\* attribute.
C22_FallbackAtLeastFloor ==
    (sc.fn = "_calculate_persona_relevance_fallback" /\ sc.pc = "returned") =>
        (/\ (3 * Unit) \div 10 <= sc.score
         /\ sc.score <= Unit
         /\ (/\ ~sc.persona.jobTitle.given
              /\ ~sc.persona.company.given
              /\ ~sc.persona.conversationContext.given) =>
                 sc.score = (3 * Unit) \div 10)



\* C23: the combined score is 0.3 * recency + 0.7 * persona clamped to
\* [0, 1], does not decrease when recency or persona grows, and is the
\* recency score itself when no persona is given (1.0 for an article
\* published now).
C23_CombinedScore ==
    (sc.fn = "calculate_combined_relevance_score" /\ sc.pc = "returned") =>
        (/\ 0 <= sc.score
         /\ sc.score <= Unit
         /\ (sc.persona = NoPersona) => (sc.score = sc.recency_score)
         /\ (/\ sc.persona = NoPersona
              /\ sc.article.published_at.known
              /\ sc.article.published_at.days_old = 0) => (sc.score = Unit)
         /\ (sc.persona # NoPersona) =>
                (10 * sc.score =
                    Max(0, Min(10 * Unit,
                               3 * sc.recency_score + 7 * sc.persona_score)))
         /\ \A q \in PublishedAts, r \in Replies :
                LET a == [sc.article EXCEPT !.published_at = q]
                IN  (/\ CalculateRelevanceScore(a) >= sc.recency_score
                     /\ PersonaScore(r) >= sc.persona_score) =>
                        (CalculateCombinedRelevanceScore(a, sc.persona, r)
                            >= sc.score))

\* an article published now scored for a persona the model rates 0.25
C23_Witness ==
    /\ sc.fn = "calculate_combined_relevance_score"
    /\ sc.pc = "returned"
    /\ sc.persona # NoPersona
    /\ sc.reply = [kind |-> "number", value |-> Unit \div 4]
    /\ sc.recency_score = Unit
    /\ sc.score = 475000

IsPrefix(s, t) == Len(s) <= Len(t) /\ SubSeq(t, 1, Len(s)) = s

\* C25: within one run the stored results only grow by appending: a write
\* stores a list that has the list stored before as a prefix, the run's
\* own result list only grows, and the stored list is always a prefix of
\* it, so every list observed is a prefix of the final one.
C25_ResultsGrowByAppending ==
    [][\A d \in Slots :
          (w[d].pc # "free" /\ w'[d].pc # "free" /\ w[d].job = w'[d].job) =>
             LET k == w[d].job
             IN  /\ IsPrefix(w[d].all_results, w'[d].all_results)
                 /\ ("results" \in DOMAIN store'[k]) =>
                        IsPrefix(store'[k].results, w'[d].all_results)
                 /\ ("results" \in DOMAIN store[k]
                        /\ "results" \in DOMAIN store'[k]) =>
                        IsPrefix(store[k].results, store'[k].results)]_vars

\* the write after the second chunk has stored more results than one
\* chunk holds
C25_Witness ==
    \E d \in Slots :
        /\ w[d].pc = "chunk"
        /\ w[d].batch_idx >= 2
        /\ "results" \in DOMAIN store[w[d].job]
        /\ Len(store[w[d].job].results) > BATCH_SIZE
        /\ store[w[d].job].results = w[d].all_results



\* C26: a two-pass listing with limit L over n candidates re-scores with
\* the model exactly min(n, ceil(1.5 * L)) of them at the balanced call
\* site and exactly min(n, 2 * L) at the expanded-fetch call site.
C26_TwoPassRescoresK ==
    (lst.endpoint = "list" /\ lst.persona /\ lst.use_llm) =>
        (lst.oracle_calls =
            IF lst.balanced
            THEN Min(lst.candidates, (3 * lst.limit + 1) \div 2)
            ELSE Min(lst.candidates, 2 * lst.limit))



C28_PollNeverShortensTTL ==
    [][(poll.pc = "expire" /\ poll'.pc = "idle") =>
          LET k == poll.task_id
          IN  (ttl[k] > 0) => (ttl'[k] >= ttl[k])]_vars



\* C29: every job entry present in the store carries a finite TTL, entries
\* written after a failure or after an earlier expiry of the key included,
\* so that an entry nobody polls is removed in the end.  Stated for the
\* states in which no run is left that could still set a TTL.
C29_EveryEntryHasTTL ==
    (\A d \in Slots : w[d].pc \in {"free", "done", "raised"}) =>
        (\A k \in TaskIds : Exists(k) => ttl[k] > 0)



\* C30: a listing request with a persona and use_llm = false issues no call
\* of the model for any article.
C30_NoOracleCallWithoutLLM ==
    (lst.endpoint = "list" /\ lst.persona /\ ~lst.use_llm) =>
        (lst.oracle_calls = 0)


=============================================================================
